---- MODULE Spec2Model ----
(***************************************************************************)
(* Model of the RFM9x LoRa driver (class RFM9x).                           *)
(*                                                                         *)
(* Every async method of the class is a "flow": a list of instructions     *)
(* (its program) and a position in it.  A flow runs synchronously from one *)
(* await to the next, so one step of the model completes the operation a   *)
(* flow is suspended on (an SPI transfer, a GPIO write, a sleep, the SPI   *)
(* open) and runs the flow up to its next suspension.  The flows are the   *)
(* API call in progress (the caller awaits each call before making the     *)
(* next one, as the README's example does), the dio0 watch callbacks in    *)
(* flight, and the send timeout timers.                                    *)
(***************************************************************************)
EXTENDS Integers, Sequences, FiniteSets, TLC

VARIABLES
    regs,        \* the chip's latched registers, by address
    chipLatches, \* the register writes the chip latches: "all", "notLoRa" (all but the
                 \* LoRa-mode flag, which stays clear), "none" (a dead or miswired chip)
    spiOpen,     \* this.#spiDevice has been set by an init
    watchers,    \* listeners of this.#dio0Gpio in order: 0 = receive callback, t > 0 = callback of send t
    txs,         \* per send that reached line 195: its timeout timer, its promise, and the
                 \* number of edges seen when the timer fired (-1 before)
    call,        \* the API call made last (pending or settled)
    cbs,         \* the dio0 watch callbacks in flight
    done,        \* the watch callback that ended in the step just taken (NoFlow otherwise)
    nCalls,      \* API calls made so far
    nEdges,      \* rising edges seen so far
    nFailures,   \* failed transfers so far
    initDone     \* an init call has completed successfully

vars == <<regs, chipLatches, spiOpen, watchers, txs, call, cbs, done,
          nCalls, nEdges, nFailures, initDone>>

----------------------------------------------------------------------------
\* Bounds of the model.
MaxCalls == 3
MaxEdges == 1
MaxFailures == 1
MaxSessionCalls == 4

----------------------------------------------------------------------------
\* REGISTERS
FIFO == \h00
OP_MODE == \h01
FRF_MSB == \h06
FRF_MID == \h07
FRF_LSB == \h08
PA_CONFIG == \h09
FIFO_ADDR_PTR == \h0D
FIFO_TX_BASE_ADDR == \h0E
FIFO_RX_BASE_ADDR == \h0F
IRQ_FLAGS == \h12
RX_NB_BYTES == \h13
PKT_SNR_VALUE == \h19
PKT_RSSI_VALUE == \h1A
MODEM_CONFIG_1 == \h1D
MODEM_CONFIG_2 == \h1E
PREAMBLE_MSB == \h20
PREAMBLE_LSB == \h21
PAYLOAD_LENGTH == \h22
MODEM_CONFIG_3 == \h26
DIO_MAPPING_1 == \h40
VERSION == \h42
PA_DAC == \h4D
\* Unnamed registers the errata code writes.
REG_2F == \h2F
REG_30 == \h30
REG_31 == \h31
REG_36 == \h36
REG_37 == \h37
REG_3A == \h3A

\* OP_MODES
SLEEP == \b000
STANDBY == \b001
TRANSMIT == \b011
RXCONT == \b101

\* DIO0_MAPPINGS
RX_DONE == \b00
TX_DONE == \b01

BANDWIDTHS == <<7800, 10400, 15600, 20800, 31250, 41700, 62500, 125000, 250000>>
BW_REG_2F_OFFSETS == <<\h48, \h44, \h44, \h44, \h44, \h44, \h40, \h40, \h40>>

RF95_FXOSC == 32000000

BITMASKS == <<\b00000001, \b00000011, \b00000111, \b00001111,
              \b00011111, \b00111111, \b01111111>>

\* The expected chip version (line 109) and the flags of a valid packet (line 157).
SupportedVersion == \h12
ValidPacketFlags == \b0101

defaultOptions ==
    [frequencyMhz |-> 915, preambleLength |-> 8, bandwidthHz |-> 500000,
     codingRate |-> 5, spreadingFactor |-> 7, enableCrcChecking |-> FALSE,
     txPowerDb |-> 23, enableAgc |-> FALSE]

----------------------------------------------------------------------------
\* Bit arithmetic on bytes, as the JavaScript operators compute it.

RECURSIVE Pow2(_)
Pow2(n) == IF n = 0 THEN 1 ELSE 2 * Pow2(n - 1)

\* (value & (mask << offset)) >> offset, mask being 2^k - 1.
MaskShift(value, mask, offset) == (value \div Pow2(offset)) % (mask + 1)

\* ReplaceBits without the shift of val.
ReplaceBitsUnshifted(value, mask, offset, val) ==
    value - MaskShift(value, mask, offset) * Pow2(offset) + val

\* (value & ~(mask << offset)) | (val << offset), mask being 2^k - 1 and val <= mask.
ReplaceBits(value, mask, offset, val) ==
    value - MaskShift(value, mask, offset) * Pow2(offset) + val * Pow2(offset)

----------------------------------------------------------------------------
\* The chip.

\* The registers the driver writes and reads back.
Latched == {OP_MODE, FRF_MSB, FRF_MID, FRF_LSB, PA_CONFIG, FIFO_ADDR_PTR,
            FIFO_TX_BASE_ADDR, FIFO_RX_BASE_ADDR, MODEM_CONFIG_1, MODEM_CONFIG_2,
            PREAMBLE_MSB, PREAMBLE_LSB, PAYLOAD_LENGTH, MODEM_CONFIG_3,
            DIO_MAPPING_1, PA_DAC, REG_2F, REG_30, REG_31, REG_36, REG_37, REG_3A}

\* The registers after a reset pulse: FSK, Standby, low-frequency mode on.
ResetRegs == [a \in Latched |-> IF a = OP_MODE THEN \h09 ELSE 0]

\* What the registers the chip itself sets may read as.
VersionValues == {\h00, \h12, \h13}
FlagBytes == {\h50, \hD0, \h70, \h40}
RxLengths == {0, 3}
SnrBytes == {8, 200}
RssiBytes == {60}

ReadValues(a) ==
    CASE a = VERSION -> VersionValues
      [] a = IRQ_FLAGS -> FlagBytes
      [] a = RX_NB_BYTES -> RxLengths
      [] a = PKT_SNR_VALUE -> SnrBytes
      [] a = PKT_RSSI_VALUE -> RssiBytes
      [] OTHER -> {0}

\* The byte a register read returns: the chip's own value for the registers it
\* sets, the latched byte for the others.
ReadReg(rg, a, input) == IF a \in Latched THEN rg[a] ELSE input

\* The chips the driver may be wired to.
ChipKinds == {"all", "notLoRa", "none"}

\* The registers after a write of byte b to register a.
WriteReg(rg, latches, a, b) ==
    IF a \in Latched /\ latches # "none"
    THEN IF a = OP_MODE /\ latches = "notLoRa"
         THEN [rg EXCEPT ![a] = (b % 128) + 128 * (@ \div 128)]
         ELSE [rg EXCEPT ![a] = b]
    ELSE rg

----------------------------------------------------------------------------
\* Instructions.  k is the kind, a the register address, n and o the width and
\* offset of a bit field, v the value written, u what is done with a byte read
\* (or the error thrown).

Ins(k, a, n, o, v, u) == [k |-> k, a |-> a, n |-> n, o |-> o, v |-> v, u |-> u]

\* Suspending instructions: the flow awaits their completion.
ReadByte(a, u) == Ins("rd", a, 8, 0, 0, u)            \* #readByte
ReadBits(a, n, o, u) == Ins("rd", a, n, o, 0, u)      \* #readBits
ReadBuffer(a) == Ins("rdbuf", a, 8, 0, 0, "payload")  \* #readBuffer(a, numBytes)
WriteByte(a, v) == Ins("wr", a, 8, 0, v % 256, "")    \* #writeByte: val & 0xFF
WriteBuffer(a, len) == Ins("wrbuf", a, 8, 0, len, "") \* #writeBuffer of len bytes
WriteBits(a, n, o, v) == Ins("wrbits", a, n, o, v, "")\* #writeBits
SpiOpen == Ins("open", 0, 0, 0, 0, "")                \* spi.open
GpioWrite(level) == Ins("gpio", 0, 0, 0, level, "")   \* #resetGpio.write
Sleep(us) == Ins("sleep", 0, 0, 0, us, "")            \* usleep.usleep / usleep.msleep
ReturnPromise == Ins("promise", 0, 0, 0, 0, "")       \* return promise (send)

\* Synchronous instructions.
NewGpio == Ins("newGpio", 0, 0, 0, 0, "")
UnwatchAll == Ins("unwatchAll", 0, 0, 0, 0, "")
WatchReceive == Ins("watchRx", 0, 0, 0, 0, "")
ArmSend == Ins("armTx", 0, 0, 0, 0, "")
Throw(err) == Ins("throw", 0, 0, 0, 0, err)
CheckFlags == Ins("chkFlags", 0, 0, 0, 0, "")
EmitReceive == Ins("emitRx", 0, 0, 0, 0, "")
ClearTimeout == Ins("clearTimeout", 0, 0, 0, 0, "")
Resolve == Ins("resolve", 0, 0, 0, 0, "")

Transfers == {"rd", "rdbuf", "wr", "wrbuf", "wrbits"}
Suspending == Transfers \cup {"open", "gpio", "sleep", "promise"}

----------------------------------------------------------------------------
\* The private methods, as instruction lists.

reset == <<GpioWrite(0), Sleep(100), GpioWrite(1), Sleep(5000)>>

getVersion(u) == <<ReadByte(VERSION, u)>>

getOperatingMode(u) == <<ReadBits(OP_MODE, 3, 0, u)>>

setOperatingMode(mode) == <<WriteBits(OP_MODE, 3, 0, mode)>>

getLoRaMode(u) == <<ReadBits(OP_MODE, 1, 7, u)>>

\* #setLoRaMode that writes nothing.
setLoRaModeSkipped(isLoRa) == <<>>

setLoRaMode(isLoRa) == <<WriteBits(OP_MODE, 1, 7, IF isLoRa THEN 1 ELSE 0)>>

setLowFrequencyMode(isLowFrequency) ==
    <<WriteBits(OP_MODE, 1, 3, IF isLowFrequency THEN 1 ELSE 0)>>

setFIFOBaseAddress(txBaseAddress, rxBaseAddress) ==
    <<WriteByte(FIFO_TX_BASE_ADDR, txBaseAddress),
      WriteByte(FIFO_RX_BASE_ADDR, rxBaseAddress)>>

\* RF95_FSTEP = RF95_FXOSC / 524288 = FStepNum / FStepDen, in lowest terms.
FStepNum == RF95_FXOSC \div 2048
FStepDen == 524288 \div 2048

\* Math.round(frequencyHz / RF95_FSTEP): the quotient frequencyHz * FStepDen / FStepNum
\* rounded half up, computed on the quotient and remainder of frequencyHz by
\* FStepNum so that no product exceeds 32 bits.
RoundDivFStep(frequencyHz) ==
    LET q == frequencyHz \div FStepNum
        r == frequencyHz % FStepNum
    IN  FStepDen * q + (2 * FStepDen * r + FStepNum) \div (2 * FStepNum)

\* frf without the offset of line 250.
FrfOfNoOffset(frequencyMhz, bandwidthHz) ==
    RoundDivFStep(frequencyMhz * 1000000) % 16777216

\* Lines 249-252: frf, with & 0xFFFFFF.
FrfOf(frequencyMhz, bandwidthHz) ==
    LET frequencyHz == frequencyMhz * 1000000
                       + (IF bandwidthHz < 62500 THEN bandwidthHz ELSE 0)
    IN  RoundDivFStep(frequencyHz) % 16777216

\* The loop of lines 260-263 with < for <= at line 262.
BandwidthIdFromStrict(bandwidthId, bandwidthHz) ==
    Cardinality({k \in 1..Len(BANDWIDTHS) : BANDWIDTHS[k] <= bandwidthHz})

\* The loop of lines 260-263.
RECURSIVE BandwidthIdFrom(_, _)
BandwidthIdFrom(bandwidthId, bandwidthHz) ==
    IF bandwidthId < Len(BANDWIDTHS)
    THEN IF bandwidthHz <= BANDWIDTHS[bandwidthId + 1]
         THEN bandwidthId
         ELSE BandwidthIdFrom(bandwidthId + 1, bandwidthHz)
    ELSE bandwidthId

BandwidthIdOf(bandwidthHz) == BandwidthIdFrom(0, bandwidthHz)

setFrequencyAndBandwidth(frequencyMhz, bandwidthHz) ==
    LET frf == FrfOf(frequencyMhz, bandwidthHz)
        bandwidthId == BandwidthIdOf(bandwidthHz)
    IN  <<WriteByte(FRF_MSB, frf \div 65536),
          WriteByte(FRF_MID, (frf \div 256) % 256),
          WriteByte(FRF_LSB, frf % 256),
          WriteBits(MODEM_CONFIG_1, 4, 4, bandwidthId)>>
        \o (IF bandwidthId < Len(BANDWIDTHS)
            THEN <<WriteBits(REG_31, 1, 7, 0),
                   WriteByte(REG_2F, BW_REG_2F_OFFSETS[bandwidthId + 1]),
                   WriteByte(REG_30, 0)>>
            ELSE <<WriteBits(REG_31, 1, 7, 1)>>)
        \o (IF bandwidthId = Len(BANDWIDTHS)
            THEN IF frequencyMhz >= 862
                 THEN <<WriteByte(REG_36, \h02), WriteByte(REG_3A, \h64)>>
                 ELSE IF frequencyMhz <= 525
                      THEN <<WriteByte(REG_36, \h02), WriteByte(REG_3A, \h7F)>>
                      ELSE <<>>
            ELSE <<WriteByte(REG_36, \h03)>>)

setPreambleLength(preambleLength) ==
    <<WriteByte(PREAMBLE_MSB, (preambleLength \div 256) % 256),
      WriteByte(PREAMBLE_LSB, preambleLength % 256)>>

setSpreadingFactor(spreadingFactor) ==
    IF spreadingFactor < 6 \/ spreadingFactor > 12
    THEN <<Throw("RangeError")>>
    ELSE <<WriteBits(MODEM_CONFIG_2, 4, 4, spreadingFactor)>>
         \o (IF spreadingFactor = 6
             THEN <<WriteBits(REG_31, 3, 0, \b101), WriteByte(REG_37, \h0C)>>
             ELSE <<>>)

setCodingRate(codingRate) ==
    IF codingRate < 5 \/ codingRate > 8
    THEN <<Throw("RangeError")>>
    ELSE <<WriteBits(MODEM_CONFIG_1, 3, 1, codingRate - 4)>>

setRxCrc(enableCrc) == <<WriteBits(MODEM_CONFIG_2, 1, 2, IF enableCrc THEN 1 ELSE 0)>>

setAgc(enableAgc) == <<WriteBits(MODEM_CONFIG_3, 1, 2, IF enableAgc THEN 1 ELSE 0)>>

\* Lines 326-341 without the reduction of line 334.
setTxPowerUnreduced(txPowerDb) ==
    IF txPowerDb < 5 \/ txPowerDb > 23
    THEN <<Throw("RangeError")>>
    ELSE (IF txPowerDb > 20
          THEN <<WriteByte(PA_DAC, \h87)>>
          ELSE <<WriteByte(PA_DAC, \h84)>>)
         \o <<WriteBits(PA_CONFIG, 1, 7, 1),
              WriteBits(PA_CONFIG, 4, 0, txPowerDb - 5)>>

setTxPower(txPowerDb) ==
    IF txPowerDb < 5 \/ txPowerDb > 23
    THEN <<Throw("RangeError")>>
    ELSE (IF txPowerDb > 20
          THEN <<WriteByte(PA_DAC, \h87)>>
          ELSE <<WriteByte(PA_DAC, \h84)>>)
         \o <<WriteBits(PA_CONFIG, 1, 7, 1),
              WriteBits(PA_CONFIG, 4, 0, (IF txPowerDb > 20 THEN txPowerDb - 3 ELSE txPowerDb) - 5)>>

----------------------------------------------------------------------------
\* The public methods and the watch callbacks, as instruction lists.

init(options) ==
    <<SpiOpen, NewGpio>>
    \o reset
    \o getVersion("version")
    \o setOperatingMode(SLEEP)
    \o <<Sleep(10000)>>
    \o setLoRaMode(TRUE)
    \o getOperatingMode("checkSleep")
    \o getLoRaMode("checkLoRa")
    \o (IF options.frequencyMhz > 525 THEN setLowFrequencyMode(FALSE) ELSE <<>>)
    \o setFIFOBaseAddress(0, 0)
    \o setOperatingMode(STANDBY)
    \o setPreambleLength(options.preambleLength)
    \o setFrequencyAndBandwidth(options.frequencyMhz, options.bandwidthHz)
    \o setSpreadingFactor(options.spreadingFactor)
    \o setCodingRate(options.codingRate)
    \o setRxCrc(options.enableCrcChecking)
    \o setAgc(options.enableAgc)
    \o setTxPower(options.txPowerDb)

\* stopReceive without its unwatchAll.
stopReceiveKeepsWatch == setOperatingMode(STANDBY)

stopReceive == setOperatingMode(STANDBY) \o <<UnwatchAll>>

\* The callback startReceive hands to watch; every edge is a rising one (value 1).
receiveCallback ==
    <<ReadBits(IRQ_FLAGS, 3, 4, "flags"),
      WriteByte(IRQ_FLAGS, \hFF),
      CheckFlags,
      ReadByte(RX_NB_BYTES, "numBytes"),
      WriteByte(FIFO_ADDR_PTR, 0),
      ReadBuffer(FIFO),
      ReadByte(PKT_SNR_VALUE, "snr"),
      ReadByte(PKT_RSSI_VALUE, "rssi"),
      EmitReceive>>

startReceive ==
    stopReceive
    \o <<WriteByte(FIFO_ADDR_PTR, 0),
         WriteBits(DIO_MAPPING_1, 2, 6, RX_DONE),
         WatchReceive>>
    \o setOperatingMode(RXCONT)

\* PayloadError without the check of line 186.
PayloadErrorTooLongOnly(length) == length > 255

\* Lines 186-187; line 185 never throws (!payload is a boolean, which is no Buffer).
PayloadError(length) == length < 1 \/ length > 255

\* The callback send hands to watch.
sendCallback == <<ClearTimeout, WriteByte(IRQ_FLAGS, \hFF), Resolve>>

send(length) ==
    IF PayloadError(length)
    THEN <<Throw("RangeError")>>
    ELSE stopReceive
         \o <<WriteByte(FIFO_ADDR_PTR, 0),
              WriteBuffer(FIFO, length),
              WriteByte(PAYLOAD_LENGTH, length),
              WriteBits(DIO_MAPPING_1, 2, 6, TX_DONE),
              ArmSend>>
         \o setOperatingMode(TRANSMIT)
         \o <<ReturnPromise>>

\* #writeBits followed by #readBits of the same field, as init does with the
\* LoRa-mode flag (lines 116 and 119).
writeReadBits(field) ==
    <<WriteBits(field.address, field.bits, field.offset, field.val),
      ReadBits(field.address, field.bits, field.offset, "value")>>

----------------------------------------------------------------------------
\* Flows.

\* trace: what the flow has done so far, in order: the transfers it issued
\* ("read" with the byte it got, -1 while in flight or failed; "write" with the
\* byte sent; "readBuffer" and "writeBuffer" with the length), the SPI open,
\* the reset line writes and the sleeps (in microseconds), and the watches,
\* timers and notifications it made.  afterStop: the flow is a stopReceive call
\* made right after a stopReceive call that resolved.
NewFlow(op, options, length, tx) ==
    [op |-> op, options |-> options, length |-> length, tx |-> tx, afterStop |-> FALSE,
     pc |-> 1, ph |-> 0, val |-> 0,
     version |-> -1, flags |-> -1, numBytes |-> 0, snr |-> 0, rssi |-> 0,
     result |-> "pending", trace |-> <<>>]

NoFlow == [NewFlow("none", defaultOptions, 0, 0) EXCEPT !.result = "none"]

Program(f) ==
    CASE f.op = "init" -> init(f.options)
      [] f.op = "startReceive" -> startReceive
      [] f.op = "stopReceive" -> stopReceive
      [] f.op = "send" -> send(f.length)
      [] f.op = "getVersion" -> getVersion("return")
      [] f.op = "receiveCallback" -> receiveCallback
      [] f.op = "sendCallback" -> sendCallback
      [] f.op = "writeReadBits" -> writeReadBits(f.options)
      [] OTHER -> <<>>

Log(f, e, a, v) == [f EXCEPT !.trace = Append(@, [e |-> e, a |-> a, v |-> v])]

\* The byte the read issued last returned.
GotByte(f, byte) == [f EXCEPT !.trace[Len(f.trace)].v = byte]

Advance(f) == [f EXCEPT !.pc = @ + 1, !.ph = 0]

Finish(f, result) == [f EXCEPT !.result = result]

\* VersionError without the check of line 109.
VersionErrorZeroOnly(version) == IF version = 0 THEN "NotDetected" ELSE ""

\* Lines 107-111.
VersionError(version) ==
    IF version = 0 THEN "NotDetected"
    ELSE IF version # SupportedVersion THEN "NotSupported"
    ELSE ""

\* FlagsValid that looks at the receive-done bit only.
FlagsValidRxDoneOnly(flags) == flags >= 4

\* Line 157.
FlagsValid(flags) == flags = ValidPacketFlags

\* snrDb * 4 of line 171 (the notification's snrDb is a quarter of it).
SnrQuarterDb(snr) == IF snr > 127 THEN (256 - snr) * (-1) ELSE snr

\* Line 170.
RssiDb(rssi) == -137 + rssi

\* Gpio.unwatchAll.
Unwatched(ws) == <<>>

\* The timeout callback without its unwatchAll.
TimeoutWatchersKept(ws) == ws

\* The timeout callback of send, line 198: the listeners after it.
TimeoutWatchers(ws) == Unwatched(ws)

Rejected(p) == IF p = "pending" THEN "rejected" ELSE p

Resolved(p) == IF p = "pending" THEN "resolved" ELSE p

\* clearTimeout.
Cleared(timer) == IF timer = "armed" THEN "cleared" ELSE timer

\* An async function that returns a promise settles as the promise does (line 214).
Follow(f, ts) ==
    IF /\ f.result = "pending"
       /\ f.pc <= Len(Program(f))
       /\ Program(f)[f.pc].k = "promise"
    THEN CASE ts[f.tx].promise = "resolved" -> Finish(f, "ok")
           [] ts[f.tx].promise = "rejected" -> Finish(f, "TimeoutError")
           [] OTHER -> f
    ELSE f

\* The transfer instruction i is issued by flow f (#readBuffer / #writeBuffer up to the await).
Issue(f, i) ==
    CASE i.k = "rd" -> Log(f, "read", i.a, -1)
      [] i.k = "wrbits" -> Log(f, "read", i.a, -1)
      [] i.k = "rdbuf" -> Log(f, "readBuffer", i.a, f.numBytes)
      [] i.k = "wr" -> Log(f, "write", i.a, i.v)
      [] i.k = "wrbuf" -> Log(f, "writeBuffer", i.a, i.v)

\* Flow m.f executes the instruction it is at: a suspending one is issued and
\* the flow stops there (go = FALSE), a synchronous one is done and passed.
\* m holds the flow and what its synchronous code reads and changes.
Execute(m) ==
    LET f == m.f
        i == Program(f)[f.pc]
    IN  CASE i.k \in Transfers ->
               \* this.#spiDevice.transfer: a TypeError while #spiDevice is undefined
               IF m.open THEN [m EXCEPT !.f = Issue(f, i), !.go = FALSE]
               ELSE [m EXCEPT !.f = Finish(f, "TypeError")]
          [] i.k \in {"open", "gpio", "sleep"} ->
               [m EXCEPT !.f = Log(f, i.k, 0, i.v), !.go = FALSE]
          [] i.k = "promise" -> [m EXCEPT !.f = Follow(f, m.txs), !.go = FALSE]
          [] i.k = "newGpio" -> [m EXCEPT !.f = Advance(f), !.watchers = <<>>]
          [] i.k = "unwatchAll" ->
               [m EXCEPT !.f = Advance(Log(f, "unwatchAll", 0, 0)),
                         !.watchers = Unwatched(m.watchers)]
          [] i.k = "watchRx" ->
               [m EXCEPT !.f = Advance(Log(f, "watch", 0, 0)),
                         !.watchers = Append(m.watchers, 0)]
          [] i.k = "armTx" ->
               LET t == Len(m.txs) + 1 IN
               [m EXCEPT !.f = Advance(Log(Log([f EXCEPT !.tx = t],
                                               "setTimeout", 0, t), "watch", 0, t)),
                         !.txs = Append(m.txs, [timer |-> "armed", promise |-> "pending",
                                                firedAt |-> -1]),
                         !.watchers = Append(m.watchers, t)]
          [] i.k = "throw" -> [m EXCEPT !.f = Finish(f, i.u)]
          [] i.k = "chkFlags" ->
               IF FlagsValid(f.flags) THEN [m EXCEPT !.f = Advance(f)]
               ELSE [m EXCEPT !.f = Finish(Log(f, "receiveError", 0, 0), "ok")]
          [] i.k = "emitRx" ->
               [m EXCEPT !.f = Advance(Log(Log(Log(f, "receive", 0, f.numBytes),
                                               "rssiDb", 0, RssiDb(f.rssi)),
                                           "snrQuarterDb", 0, SnrQuarterDb(f.snr)))]
          [] i.k = "clearTimeout" ->
               [m EXCEPT !.f = Advance(Log(f, "clearTimeout", 0, f.tx)),
                         !.txs[f.tx].timer = Cleared(@)]
          [] i.k = "resolve" ->
               [m EXCEPT !.f = Advance(Log(f, "resolve", 0, f.tx)),
                         !.txs[f.tx].promise = Resolved(@)]

\* Run flow m.f from its position up to its next await, its return or its throw.
RECURSIVE Run(_)
Run(m) ==
    IF ~m.go \/ m.f.result # "pending" THEN m
    ELSE IF m.f.pc > Len(Program(m.f)) THEN [m EXCEPT !.f = Finish(m.f, "ok")]
    ELSE Run(Execute(m))

\* Line 119 without the check of the LoRa-mode flag.
ReadbackMismatchModeOnly(u, value) == u = "checkSleep" /\ value # SLEEP

\* Line 119: the value read back is not the one init wrote.
ReadbackMismatch(u, value) ==
    \/ u = "checkSleep" /\ value # SLEEP
    \/ u = "checkLoRa" /\ value # 1

\* What flow f does with the value a read returned.
Use(f, u, value) ==
    CASE u = "version" ->
           IF VersionError(value) # ""
           THEN Finish([f EXCEPT !.version = value], VersionError(value))
           ELSE [f EXCEPT !.version = value]
      [] u = "return" -> [f EXCEPT !.version = value]
      [] u \in {"checkSleep", "checkLoRa"} ->
           IF ReadbackMismatch(u, value) THEN Finish(f, "ReadbackError") ELSE f
      [] u = "value" -> [f EXCEPT !.val = value]
      [] u = "flags" -> [f EXCEPT !.flags = value]
      [] u = "numBytes" -> [f EXCEPT !.numBytes = value]
      [] u = "snr" -> [f EXCEPT !.snr = value]
      [] u = "rssi" -> [f EXCEPT !.rssi = value]

\* #writeBits that takes every byte for a change.
NoChangeNever(registerValue, oldRegisterValue) == FALSE

\* Line 408.
NoChange(registerValue, oldRegisterValue) == registerValue = oldRegisterValue

\* The operation flow m.f awaits has completed without error (input: the byte
\* the chip returns for a register it sets itself): its effect, and the flow
\* past it, or at the write a #writeBits goes on to.
Completed(m, latches, input) ==
    LET f == m.f
        i == Program(f)[f.pc]
    IN  CASE i.k = "open" -> [m EXCEPT !.f = Advance(f), !.open = TRUE]
          [] i.k = "gpio" ->
               [m EXCEPT !.f = Advance(f), !.regs = IF i.v = 0 THEN ResetRegs ELSE @]
          [] i.k = "sleep" -> [m EXCEPT !.f = Advance(f)]
          [] i.k = "rd" ->
               LET byte == ReadReg(m.regs, i.a, input)
                   value == IF i.n = 8 THEN byte
                            ELSE MaskShift(byte, BITMASKS[i.n], i.o)
               IN  [m EXCEPT !.f = Advance(Use(GotByte(f, byte), i.u, value))]
          [] i.k = "rdbuf" -> [m EXCEPT !.f = Advance(f)]
          [] i.k = "wr" ->
               [m EXCEPT !.f = Advance(f), !.regs = WriteReg(m.regs, latches, i.a, i.v)]
          [] i.k = "wrbuf" -> [m EXCEPT !.f = Advance(f)]
          [] i.k = "wrbits" ->
               IF f.ph = 0
               THEN LET mask == BITMASKS[i.n]
                        oldRegisterValue == ReadReg(m.regs, i.a, input)
                        registerValue ==
                            ReplaceBits(oldRegisterValue, mask, i.o, i.v % (mask + 1))
                    IN  IF NoChange(registerValue, oldRegisterValue)
                        THEN [m EXCEPT !.f = Advance(GotByte(f, oldRegisterValue))]
                        ELSE [m EXCEPT !.f = Log([GotByte(f, oldRegisterValue)
                                                    EXCEPT !.ph = 1, !.val = registerValue % 256],
                                                 "write", i.a, registerValue % 256),
                                       !.go = FALSE]
               ELSE [m EXCEPT !.f = Advance(f),
                              !.regs = WriteReg(m.regs, latches, i.a, f.val)]

\* The operation flow m.f awaits ends, with an error or without, and the flow
\* runs on.
Complete(m, latches, ok, input) ==
    IF ok THEN Run(Completed(m, latches, input))
    ELSE [m EXCEPT !.f = Finish(m.f, "BusError")]

----------------------------------------------------------------------------
\* The state machine.

\* The options init is called with (after the merge with defaultOptions, line 90).
OptionChoices ==
    {defaultOptions,
     [defaultOptions EXCEPT !.frequencyMhz = 433, !.bandwidthHz = 31250,
                            !.spreadingFactor = 6, !.txPowerDb = 17,
                            !.enableCrcChecking = TRUE],
     [defaultOptions EXCEPT !.codingRate = 9]}

\* The payload lengths send is called with.
PayloadLengths == {0, 1, 255, 256}

Init ==
    /\ regs = ResetRegs
    /\ chipLatches \in ChipKinds
    /\ spiOpen = FALSE
    /\ watchers = <<>>
    /\ txs = <<>>
    /\ call = NoFlow
    /\ cbs = <<>>
    /\ done = NoFlow
    /\ nCalls = 0
    /\ nEdges = 0
    /\ nFailures = 0
    /\ initDone = FALSE

Machine(f) ==
    [f |-> f, regs |-> regs, watchers |-> watchers, txs |-> txs, open |-> spiOpen,
     go |-> TRUE]

\* The instruction flow f is at.
At(f) == Program(f)[f.pc]

\* Flow f awaits an operation of the hardware.
Awaiting(f) ==
    /\ f.result = "pending"
    /\ f.pc <= Len(Program(f))
    /\ At(f).k \in Suspending \ {"promise"}

\* The ways the awaited operation may end: transfers and the SPI open may fail.
Outcomes(f) ==
    IF At(f).k \in Transfers \cup {"open"} /\ nFailures < MaxFailures
    THEN {TRUE, FALSE} ELSE {TRUE}

\* The bytes the awaited read may return.
Inputs(f) == IF At(f).k \in {"rd", "wrbits"} /\ f.ph = 0 THEN ReadValues(At(f).a) ELSE {0}

\* The caller makes an API call once the call before it has settled; the
\* synchronous part of the method runs at once.
Begin(f) ==
    /\ call.result # "pending"
    /\ LET m == Run(Machine(f)) IN
         /\ call' = m.f
         /\ regs' = m.regs
         /\ watchers' = m.watchers
         /\ txs' = m.txs
         /\ spiOpen' = m.open
    /\ nCalls' = nCalls + 1
    /\ done' = NoFlow
    /\ UNCHANGED <<chipLatches, cbs, nEdges, nFailures, initDone>>

Call(f) ==
    /\ nCalls < MaxCalls
    /\ Begin(f)

\* init replaces this.#dio0Gpio (line 101); the model calls it while the handle
\* it replaces has no listener.
InitCall(options) ==
    /\ watchers = <<>>
    /\ Call(NewFlow("init", options, 0, 0))

StartReceiveCall == Call(NewFlow("startReceive", defaultOptions, 0, 0))

StopReceiveFlow ==
    [NewFlow("stopReceive", defaultOptions, 0, 0)
        EXCEPT !.afterStop = (call.op = "stopReceive" /\ call.result = "ok")]

StopReceiveCall == Call(StopReceiveFlow)

SendCall(length) == Call(NewFlow("send", defaultOptions, length, 0))

GetVersionCall == Call(NewFlow("getVersion", defaultOptions, 0, 0))

\* The operation the API call awaits completes.
CallStep ==
    /\ Awaiting(call)
    /\ \E ok \in Outcomes(call), input \in Inputs(call) :
         LET m == Complete(Machine(call), chipLatches, ok, input) IN
           /\ call' = m.f
           /\ regs' = m.regs
           /\ watchers' = m.watchers
           /\ txs' = m.txs
           /\ spiOpen' = m.open
           /\ nFailures' = IF ok THEN nFailures ELSE nFailures + 1
           /\ initDone' = (initDone \/ (m.f.op = "init" /\ m.f.result = "ok"))
    /\ done' = NoFlow
    /\ UNCHANGED <<chipLatches, cbs, nCalls, nEdges>>

Remove(s, i) == SubSeq(s, 1, i - 1) \o SubSeq(s, i + 1, Len(s))

\* The transfer watch callback i awaits completes.
CallbackStep(i) ==
    /\ Awaiting(cbs[i])
    /\ \E ok \in Outcomes(cbs[i]), input \in Inputs(cbs[i]) :
         LET m == Complete(Machine(cbs[i]), chipLatches, ok, input) IN
           /\ IF m.f.result = "pending"
              THEN cbs' = [cbs EXCEPT ![i] = m.f] /\ done' = NoFlow
              ELSE cbs' = Remove(cbs, i) /\ done' = m.f
           /\ regs' = m.regs
           /\ watchers' = m.watchers
           /\ txs' = m.txs
           /\ spiOpen' = m.open
           /\ call' = Follow(call, m.txs)
           /\ nFailures' = IF ok THEN nFailures ELSE nFailures + 1
    /\ UNCHANGED <<chipLatches, nCalls, nEdges, initDone>>

\* A rising edge on dio0: every listener is called with value 1, in order, and
\* runs up to its first await.
RECURSIVE Notify(_, _, _)
Notify(ws, m, started) ==
    IF ws = <<>> THEN [m |-> m, started |-> started]
    ELSE LET w == Head(ws)
             f == IF w = 0 THEN NewFlow("receiveCallback", defaultOptions, 0, 0)
                  ELSE NewFlow("sendCallback", defaultOptions, 0, w)
             m1 == Run([m EXCEPT !.f = f, !.go = TRUE])
         IN  Notify(Tail(ws), m1,
                    IF m1.f.result = "pending" THEN Append(started, m1.f) ELSE started)

Edge ==
    /\ nEdges < MaxEdges
    /\ LET r == Notify(watchers, Machine(NoFlow), <<>>) IN
         /\ cbs' = cbs \o r.started
         /\ txs' = r.m.txs
         /\ call' = Follow(call, r.m.txs)
    /\ nEdges' = nEdges + 1
    /\ done' = NoFlow
    /\ UNCHANGED <<regs, chipLatches, spiOpen, watchers, nCalls, nFailures, initDone>>

\* The timeout of send t expires (lines 197-200).
TimerFire(t) ==
    /\ txs[t].timer = "armed"
    /\ txs' = [txs EXCEPT ![t].timer = "fired", ![t].promise = Rejected(@),
                           ![t].firedAt = nEdges]
    /\ watchers' = TimeoutWatchers(watchers)
    /\ call' = Follow(call, txs')
    /\ done' = NoFlow
    /\ UNCHANGED <<regs, chipLatches, spiOpen, cbs, nCalls, nEdges, nFailures, initDone>>

Next ==
    \/ \E options \in OptionChoices : InitCall(options)
    \/ StartReceiveCall
    \/ StopReceiveCall
    \/ \E length \in PayloadLengths : SendCall(length)
    \/ GetVersionCall
    \/ CallStep
    \/ \E i \in 1..Len(cbs) : CallbackStep(i)
    \/ Edge
    \/ \E t \in 1..Len(txs) : TimerFire(t)

Spec == Init /\ [][Next]_vars

----------------------------------------------------------------------------
\* The configurations: the first call made on a driver is an init, with options
\* that cover each field's range, its limits and values beyond them.

ConfigFrequencies == {-1, 0, 137, 433, 525, 526, 861, 862, 868, 915, 1020, 1023, 1024, 1100}

ConfigBandwidths ==
    {BANDWIDTHS[k] : k \in 1..Len(BANDWIDTHS)}
    \cup {1, 7799, 7801, 62499, 62501, 250001, 500000}

ConfigPreambles == {-1, 0, 8, 255, 256, 65535, 65536}

ConfigChoices ==
    {[defaultOptions EXCEPT !.frequencyMhz = f, !.bandwidthHz = b] :
        f \in ConfigFrequencies, b \in ConfigBandwidths}
    \cup {[defaultOptions EXCEPT !.preambleLength = p] : p \in ConfigPreambles}
    \cup {[defaultOptions EXCEPT !.spreadingFactor = sf] : sf \in 5..13}
    \cup {[defaultOptions EXCEPT !.codingRate = cr] : cr \in 4..9}
    \cup {[defaultOptions EXCEPT !.txPowerDb = p] : p \in 4..24}
    \cup {[defaultOptions EXCEPT !.enableCrcChecking = crc, !.enableAgc = agc] :
            crc \in BOOLEAN, agc \in BOOLEAN}

ConfigCall(options) ==
    /\ nCalls = 0
    /\ InitCall(options)

NextConfig ==
    \/ \E options \in ConfigChoices : ConfigCall(options)
    \/ CallStep

SpecConfig == Init /\ [][NextConfig]_vars

----------------------------------------------------------------------------
\* The bit fields: on an initialised driver, over a chip whose register holds
\* one of the bytes below, a field of any width and offset is written with any
\* value that fits it and read back.

\* All clear, all set, alternating bits, nibbles and pairs, the ends, the
\* bytes init meets in OP_MODE, and a single bit set or clear at each position.
Bytes ==
    {\h00, \hFF, \h55, \hAA, \h0F, \hF0, \h33, \hCC, \h81, \h7E, \h09, \h88, \h12, \h90}
    \cup {Pow2(i) : i \in 0..7}
    \cup {255 - Pow2(i) : i \in 0..7}

FieldRegister == MODEM_CONFIG_1

Fields ==
    {[address |-> FieldRegister, bits |-> bits, offset |-> offset, val |-> val] :
        bits \in 1..7, offset \in 0..7, val \in 0..127}

InitBits ==
    /\ regs \in {[ResetRegs EXCEPT ![FieldRegister] = byte] : byte \in Bytes}
    /\ chipLatches = "all"
    /\ spiOpen = TRUE
    /\ watchers = <<>>
    /\ txs = <<>>
    /\ call = NoFlow
    /\ cbs = <<>>
    /\ done = NoFlow
    /\ nCalls = 0
    /\ nEdges = 0
    /\ nFailures = 0
    /\ initDone = TRUE

FieldCall(field) ==
    /\ nCalls = 0
    /\ field.offset + field.bits <= 8
    /\ field.val < Pow2(field.bits)
    /\ Begin(NewFlow("writeReadBits", field, 0, 0))

NextBits ==
    \/ \E field \in Fields : FieldCall(field)
    \/ CallStep

SpecBits == InitBits /\ [][NextBits]_vars

----------------------------------------------------------------------------
\* A session: the caller initialises the driver with the default options and
\* then starts receiving, sends one byte or stops receiving, in any order.

SessionInit ==
    /\ nCalls = 0
    /\ Begin(NewFlow("init", defaultOptions, 0, 0))

SessionCall ==
    /\ initDone
    /\ nCalls < MaxSessionCalls
    /\ \/ Begin(NewFlow("startReceive", defaultOptions, 0, 0))
       \/ Begin(NewFlow("send", defaultOptions, 1, 0))
       \/ Begin(StopReceiveFlow)

NextSession ==
    \/ SessionInit
    \/ SessionCall
    \/ CallStep
    \/ \E i \in 1..Len(cbs) : CallbackStep(i)
    \/ Edge
    \/ \E t \in 1..Len(txs) : TimerFire(t)

SpecSession == Init /\ [][NextSession]_vars

----------------------------------------------------------------------------
\* What the properties below speak of.

\* How many entries of kind e a trace holds.
Count(trace, e) == Cardinality({k \in 1..Len(trace) : trace[k].e = e})

Entry(e, a, v) == [e |-> e, a |-> a, v |-> v]

\* Flow f has a register transfer outstanding.
AwaitingTransfer(f) ==
    /\ f.result = "pending"
    /\ f.pc <= Len(Program(f))
    /\ At(f).k \in Transfers

\* The register transfers outstanding.
Outstanding ==
    (IF AwaitingTransfer(call) THEN 1 ELSE 0)
    + Cardinality({k \in 1..Len(cbs) : AwaitingTransfer(cbs[k])})

\* A callback of send t is in flight.
SendCallbackInFlight(t) ==
    \E k \in 1..Len(cbs) : cbs[k].op = "sendCallback" /\ cbs[k].tx = t

\* The call made last is send t, past its validation.
IsSend(t) == call.op = "send" /\ call.tx = t

\* The flags byte a receive callback read (-1: not read).
FlagsByte(f) == IF Len(f.trace) >= 1 THEN f.trace[1].v ELSE -1

\* The notifications a flow emitted.
Notifications(f) == Count(f.trace, "receive") + Count(f.trace, "receiveError")

----------------------------------------------------------------------------
\* C1: every send that passed validation, made after a successful init,
\* settles exactly once: if its transmit-done edge has been handled before the timeout fired (the timer is
\* cancelled and the handler has ended) its promise is resolved and the send
\* has succeeded; if the timeout fired first its promise is rejected and the
\* send has not succeeded; and a send still pending has its timer armed or its
\* edge being handled, so it never stays pending forever.
C1_SendSettlesExactlyOnce ==
    \A t \in 1..Len(txs) : initDone =>
      /\ (txs[t].timer = "cleared" /\ ~SendCallbackInFlight(t))
            => txs[t].promise = "resolved"
      /\ txs[t].timer = "fired" => txs[t].promise = "rejected"
      /\ txs[t].promise = "pending"
            => (txs[t].timer = "armed" \/ SendCallbackInFlight(t))
      /\ (IsSend(t) /\ call.result = "ok") => txs[t].promise = "resolved"
      /\ (IsSend(t) /\ call.result = "TimeoutError") => txs[t].promise = "rejected"

----------------------------------------------------------------------------
\* C2: when the timeout of a send expires, the edge watch is disarmed in that
\* step and the send's promise is rejected; the send, if it awaits the promise,
\* fails with the timeout error, and never reports success afterwards.  A
\* rising edge that arrives while no watch is armed starts no callback, makes
\* no register operation and no notification.
C2_TimeoutStep ==
    \A t \in 1..Len(txs) :
      (txs[t].timer = "armed" /\ txs'[t].timer = "fired") =>
        /\ watchers' = <<>>
        /\ txs'[t].promise = "rejected"
        /\ (IsSend(t) /\ call.result = "pending" /\ At(call).k = "promise")
              => call'.result = "TimeoutError"

C2_LateEdgeStep ==
    (nEdges' = nEdges + 1 /\ watchers = <<>>) =>
        /\ UNCHANGED <<regs, watchers, txs, call, cbs>>
        /\ done' = NoFlow

C2_TimeoutDisarmsWatch ==
    /\ [][C2_TimeoutStep /\ C2_LateEdgeStep]_vars
    /\ [](\A t \in 1..Len(txs) :
            (IsSend(t) /\ txs[t].timer = "fired") => call.result # "ok")

\* A send has failed with the timeout error and a rising edge has arrived after
\* its timer fired, with no watch armed.
C2_Witness ==
    \E t \in 1..Len(txs) :
      /\ IsSend(t)
      /\ call.result = "TimeoutError"
      /\ txs[t].timer = "fired"
      /\ nEdges > txs[t].firedAt
      /\ watchers = <<>>
      /\ cbs = <<>>

----------------------------------------------------------------------------
\* C3: once startReceive has resolved (after a successful init and whatever
\* calls came before), the receive watch stays armed until stopReceive or send
\* is next called.
C3_ReceiveStaysArmed ==
    (initDone /\ call.op = "startReceive" /\ call.result = "ok") => watchers = <<0>>

----------------------------------------------------------------------------
\* C4, as claimed: a receive callback that has ended emitted exactly one
\* receiveError and read no FIFO if bits 7..4 of the flags byte it read are not
\* 0b0101, and exactly one receive and no receiveError if they are; it read the
\* flags and then cleared them.
C4_FourBitPattern ==
    (done.op = "receiveCallback" /\ done.result = "ok") =>
        LET pattern == FlagsByte(done) \div 16 IN
          /\ pattern # 5 => /\ Count(done.trace, "receiveError") = 1
                            /\ Count(done.trace, "receive") = 0
                            /\ Count(done.trace, "readBuffer") = 0
          /\ pattern = 5 => /\ Count(done.trace, "receive") = 1
                            /\ Count(done.trace, "receiveError") = 0

\* What a receive callback did once it has read flags byte and cleared the flags.
ReadThenCleared(f) ==
    /\ Len(f.trace) >= 2
    /\ f.trace[1].e = "read" /\ f.trace[1].a = IRQ_FLAGS
    /\ f.trace[2] = Entry("write", IRQ_FLAGS, 255)

\* C4, amended: each rising edge starts one receive callback.  A callback that
\* has ended without a bus error read the flags and then cleared them, and, for
\* every flags byte, emitted exactly one receiveError and nothing else (no
\* receive, no FIFO read, no further transfer) if bits 6..4 of the byte are not
\* 0b101, and exactly one receive and no receiveError if they are (bit 7 is not
\* looked at).  A callback in flight, or ended by a bus error, has emitted
\* nothing, and no callback reads the FIFO after flags whose bits 6..4 are not
\* 0b101.
C4_ThreeBitPattern ==
    /\ Cardinality({k \in 1..Len(watchers) : watchers[k] = 0}) <= 1
    /\ (done.op = "receiveCallback" /\ done.result = "ok") =>
          LET pattern == (FlagsByte(done) \div 16) % 8 IN
            /\ ReadThenCleared(done)
            /\ pattern # 5 => /\ Count(done.trace, "receiveError") = 1
                              /\ Count(done.trace, "receive") = 0
                              /\ Len(done.trace) = 3
            /\ pattern = 5 => /\ Count(done.trace, "receive") = 1
                              /\ Count(done.trace, "receiveError") = 0
                              /\ Count(done.trace, "readBuffer") = 1
    /\ (done.op = "receiveCallback" /\ done.result # "ok") => Notifications(done) = 0
    /\ \A k \in 1..Len(cbs) :
          cbs[k].op = "receiveCallback" =>
            /\ Notifications(cbs[k]) = 0
            /\ (Len(cbs[k].trace) > 2 => /\ ReadThenCleared(cbs[k])
                                         /\ (FlagsByte(cbs[k]) \div 16) % 8 = 5)

\* A receive callback read the flags byte 0xD0 (bit 7 set, bits 6..4 = 0b101)
\* and emitted a receive notification.
C4_Witness ==
    /\ done.op = "receiveCallback"
    /\ done.result = "ok"
    /\ FlagsByte(done) = 208
    /\ Count(done.trace, "receive") = 1

----------------------------------------------------------------------------
\* C5: after a stopReceive call has resolved, and until the next call, no
\* receive and no receiveError notification is emitted.
C5_NoNotificationAfterStop ==
    (initDone /\ call.op = "stopReceive" /\ call.result = "ok") => Notifications(done) = 0

----------------------------------------------------------------------------
\* C6: once init has succeeded, at most one register transfer is outstanding
\* at any time.
C6_OneTransferOutstanding == initDone => Outstanding <= 1

----------------------------------------------------------------------------
\* C7: a startReceive or send called while no init has completed successfully
\* issues no register transfer and arms no watch and no timer.
C7_NothingBeforeInit ==
    (call.op \in {"startReceive", "send"} /\ ~initDone) => call.trace = <<>>

----------------------------------------------------------------------------
\* C8: a bus failure of the IRQ-flag clear made while handling the transmit-done
\* edge of a send that awaits its completion makes that send fail with the bus
\* error: it does not leave the send pending.
C8_BusFailureFailsSend ==
    (/\ initDone
     /\ done.op = "sendCallback" /\ done.result = "BusError"
     /\ IsSend(done.tx) /\ ~AwaitingTransfer(call))
        => call.result = "BusError"

----------------------------------------------------------------------------
\* C9: a send called with a payload of length 0 or of length above 255 fails
\* with the validation error in the step of the call, having issued no transfer
\* and armed no watch and no timer, and leaves the registers, the watch, the
\* timers and the callbacks in flight as they were.
C9_InvalidSendStep ==
    (nCalls' = nCalls + 1 /\ call'.op = "send" /\ call'.length \notin 1..255) =>
        /\ call'.result = "RangeError"
        /\ call'.trace = <<>>
        /\ UNCHANGED <<regs, watchers, txs, cbs, spiOpen>>

C9_InvalidPayloadTouchesNothing == [][C9_InvalidSendStep]_vars

\* A send of 256 bytes has failed validation while the receive watch is armed
\* and the chip is in ReceiveContinuous mode.
C9_Witness ==
    /\ call.op = "send"
    /\ call.length = 256
    /\ call.result = "RangeError"
    /\ watchers = <<0>>
    /\ MaskShift(regs[OP_MODE], 7, 0) = RXCONT

----------------------------------------------------------------------------
\* C10: init fails with "not detected" when the version register reads 0 and
\* with "not supported" when it reads another value than 0x12, and then it has
\* done nothing but open the SPI device, pulse the reset line and read the
\* version register: no register write, and nothing after the read.
C10_VersionCheck ==
    (call.op = "init" /\ call.version # -1) =>
        /\ call.version = 0 => call.result = "NotDetected"
        /\ call.version \notin {0, 18} => call.result = "NotSupported"
        /\ call.version = 18 => call.result \notin {"NotDetected", "NotSupported"}
        /\ call.result \in {"NotDetected", "NotSupported"} =>
              call.trace = <<Entry("open", 0, 0),
                             Entry("gpio", 0, 0), Entry("sleep", 0, 100),
                             Entry("gpio", 0, 1), Entry("sleep", 0, 5000),
                             Entry("read", VERSION, call.version)>>

\* An init has failed on a chip of version 0x13.
C10_Witness ==
    /\ call.op = "init"
    /\ call.version = 19
    /\ call.result = "NotSupported"

----------------------------------------------------------------------------
\* What the properties of init speak of.

\* Every numeric field of the options is in its range.
InRange(options) ==
    /\ options.frequencyMhz > 0
    /\ options.preambleLength >= 0
    /\ options.codingRate \in 5..8
    /\ options.spreadingFactor \in 6..12
    /\ options.txPowerDb \in 5..23

\* The positions in a trace of the writes to the registers in as.
WritesTo(trace, as) ==
    {k \in 1..Len(trace) : trace[k].e = "write" /\ trace[k].a \in as}

\* The bytes written to register a, in order.
BytesWrittenTo(trace, a) ==
    LET w == SelectSeq(trace, LAMBDA x : x.e = "write" /\ x.a = a)
    IN  [k \in 1..Len(w) |-> w[k].v]

ModeOf(byte) == MaskShift(byte, BITMASKS[3], 0)

LoRaOf(byte) == MaskShift(byte, BITMASKS[1], 7)

\* The registers the parameters of the options are programmed into.
ParameterRegisters ==
    {PREAMBLE_MSB, PREAMBLE_LSB, FRF_MSB, FRF_MID, FRF_LSB,
     MODEM_CONFIG_1, MODEM_CONFIG_2, MODEM_CONFIG_3,
     REG_2F, REG_30, REG_31, REG_36, REG_37, REG_3A, PA_DAC, PA_CONFIG}

\* An init that has ended and met no bus failure and a chip of the supported
\* version.
InitEnded ==
    /\ call.op = "init"
    /\ call.version = SupportedVersion
    /\ call.result \notin {"pending", "BusError"}

----------------------------------------------------------------------------
\* C11: an init with every field in range, on a chip of version 0x12 that
\* latches every write, succeeds (no transfer failing); the chip is then in
\* Standby mode with the LoRa flag set; the bytes init wrote to the operating
\* mode register are Sleep with the LoRa flag clear, then Sleep with the flag
\* set (after a sleep of at least 10 ms), then Standby with the flag set, the
\* last write; and every write to a parameter register comes after the Standby
\* write.
C11_InitEndsInStandby ==
    /\ (InitEnded /\ InRange(call.options) /\ chipLatches = "all") =>
          LET w == BytesWrittenTo(call.trace, OP_MODE) IN
            /\ call.result = "ok"
            /\ ModeOf(regs[OP_MODE]) = STANDBY
            /\ LoRaOf(regs[OP_MODE]) = 1
            /\ Len(w) \in {3, 4}
            /\ ModeOf(w[1]) = SLEEP /\ LoRaOf(w[1]) = 0
            /\ \A k \in 2..(Len(w) - 1) : ModeOf(w[k]) = SLEEP /\ LoRaOf(w[k]) = 1
            /\ ModeOf(w[Len(w)]) = STANDBY /\ LoRaOf(w[Len(w)]) = 1
            /\ \E i, j, k \in 1..Len(call.trace) :
                 /\ i < j /\ j < k
                 /\ call.trace[i] = Entry("write", OP_MODE, w[1])
                 /\ call.trace[j].e = "sleep" /\ call.trace[j].v >= 10000
                 /\ call.trace[k] = Entry("write", OP_MODE, w[2])
    /\ (call.op = "init" /\ chipLatches = "all") =>
          \A k \in WritesTo(call.trace, ParameterRegisters) :
             \E j \in WritesTo(call.trace, {OP_MODE}) :
                j < k /\ ModeOf(call.trace[j].v) = STANDBY /\ LoRaOf(call.trace[j].v) = 1

\* An init at 433 MHz and 7.8 kHz has succeeded.
C11_Witness ==
    /\ call.op = "init"
    /\ call.result = "ok"
    /\ call.options.frequencyMhz = 433
    /\ call.options.bandwidthHz = 7800
    /\ ModeOf(regs[OP_MODE]) = STANDBY

----------------------------------------------------------------------------
\* The position in a trace of the n-th write to register a.
NthWrite(trace, a, n) ==
    CHOOSE k \in WritesTo(trace, {a}) :
        Cardinality({j \in WritesTo(trace, {a}) : j <= k}) = n

\* C12: in an init, the two register reads that follow the Sleep write and the
\* LoRa-flag write are the readback.  If the first has returned a mode other
\* than Sleep, or the second a clear LoRa flag, init has failed with the
\* readback error and that read is the last thing it did: no register write
\* (FIFO base address, Standby switch, parameter) follows.  Init fails with
\* that error in no other case.
C12_ReadbackMismatchStopsInit ==
    (call.op = "init" /\ Cardinality(WritesTo(call.trace, {OP_MODE})) >= 2) =>
        LET t == call.trace
            p == NthWrite(t, OP_MODE, 2)
            modeMismatch ==
                Len(t) > p /\ t[p + 1].v # -1 /\ ModeOf(t[p + 1].v) # SLEEP
            flagMismatch ==
                Len(t) > p + 1 /\ t[p + 2].v # -1 /\ LoRaOf(t[p + 2].v) # 1
        IN  /\ (Len(t) > p => t[p + 1].e = "read" /\ t[p + 1].a = OP_MODE)
            /\ (Len(t) > p + 1 => t[p + 2].e = "read" /\ t[p + 2].a = OP_MODE)
            /\ modeMismatch => call.result = "ReadbackError" /\ Len(t) = p + 1
            /\ flagMismatch => call.result = "ReadbackError" /\ Len(t) = p + 2
            /\ call.result = "ReadbackError" => (modeMismatch \/ flagMismatch)

\* An init has failed on a chip that ended in Sleep mode with the LoRa flag
\* clear.
C12_Witness ==
    /\ call.op = "init"
    /\ call.result = "ReadbackError"
    /\ ModeOf(regs[OP_MODE]) = SLEEP
    /\ LoRaOf(regs[OP_MODE]) = 0

----------------------------------------------------------------------------
\* C13: an init called with a numeric field out of range (frequency not
\* positive, preamble length negative, coding rate outside 5..8, spreading
\* factor outside 6..12, transmit power outside 5..23) fails with the range
\* error on a chip that passes the version and readback checks, and never
\* writes the registers of the out-of-range field.
C13_OutOfRangeRejected ==
    (call.op = "init" /\ ~InRange(call.options)) =>
        LET o == call.options
            t == call.trace
        IN  /\ (InitEnded /\ chipLatches = "all") => call.result = "RangeError"
            /\ o.frequencyMhz <= 0 => WritesTo(t, {FRF_MSB, FRF_MID, FRF_LSB}) = {}
            /\ o.preambleLength < 0 => WritesTo(t, {PREAMBLE_MSB, PREAMBLE_LSB}) = {}
            /\ o.spreadingFactor \notin 6..12 => WritesTo(t, {MODEM_CONFIG_2, REG_37}) = {}
            /\ o.codingRate \notin 5..8 => Cardinality(WritesTo(t, {MODEM_CONFIG_1})) <= 1
            /\ o.txPowerDb \notin 5..23 => WritesTo(t, {PA_DAC, PA_CONFIG}) = {}

----------------------------------------------------------------------------
\* C14: a stopReceive call made on a driver whose SPI device is open, from any
\* state, resolves unless a transfer fails, and leaves the operating mode at
\* Standby and no listener on dio0.  A stopReceive call made right after one
\* that resolved issues a register read and no register write, and none of its
\* steps changes the registers, the listeners, the timers and promises, or the
\* callbacks in flight.
C14_Stopped ==
    /\ (call.op = "stopReceive" /\ call.result \notin {"pending", "BusError"} /\ spiOpen)
          => call.result = "ok"
    /\ (call.op = "stopReceive" /\ call.result = "ok") =>
          /\ ModeOf(regs[OP_MODE]) = STANDBY
          /\ watchers = <<>>
    /\ (call.op = "stopReceive" /\ call.afterStop) =>
          /\ WritesTo(call.trace, Latched \cup {IRQ_FLAGS}) = {}
          /\ call.result = "ok" =>
                call.trace = <<Entry("read", OP_MODE, regs[OP_MODE]),
                               Entry("unwatchAll", 0, 0)>>

C14_SecondStopStep ==
    (call'.op = "stopReceive" /\ call'.afterStop /\ call' # call)
        => UNCHANGED <<regs, watchers, txs, cbs, spiOpen>>

C14_StopReceiveIdempotent == []C14_Stopped /\ [][C14_SecondStopStep]_vars

\* A second stopReceive in a row has resolved while a callback, started by a
\* rising edge before the first one, is still in flight.
C14_Witness ==
    /\ initDone
    /\ cbs # <<>>
    /\ call.op = "stopReceive"
    /\ call.afterStop
    /\ call.result = "ok"

----------------------------------------------------------------------------
\* C15: once a send made after a successful init has settled, with success,
\* with the timeout error or with a bus error, the listener it registered on
\* dio0 is registered no more and no timeout timer is left armed.
C15_IdleAfterSend ==
    (initDone /\ call.op = "send" /\ call.result \in {"ok", "TimeoutError", "BusError"}) =>
        /\ \A k \in 1..Len(watchers) : watchers[k] = 0
        /\ \A t \in 1..Len(txs) : txs[t].timer # "armed"

----------------------------------------------------------------------------
\* C16: in a startReceive or send made after a successful init, the write that
\* puts the chip in ReceiveContinuous respectively Transmit mode comes after the
\* call has removed the earlier listeners and registered its own (and, in send,
\* armed its timer); and while that write is outstanding the call's listener,
\* and no other, is registered on dio0 (unless, in send, its own timeout has
\* expired).
C16_WatchArmedBeforeModeWrite ==
    (initDone /\ call.op \in {"startReceive", "send"}) =>
        LET t == call.trace
            target == IF call.op = "send" THEN TRANSMIT ELSE RXCONT
            own == IF call.op = "send" THEN call.tx ELSE 0
        IN  \A k \in WritesTo(t, {OP_MODE}) :
              ModeOf(t[k].v) = target =>
                /\ \E i, j \in 1..k :
                      /\ i < j /\ j < k
                      /\ t[i].e = "unwatchAll"
                      /\ t[j].e = "watch"
                /\ call.op = "send" => \E j \in 1..k : t[j].e = "setTimeout"
                /\ (k = Len(t) /\ AwaitingTransfer(call)) =>
                      \/ watchers = <<own>>
                      \/ call.op = "send" /\ txs[own].timer = "fired"

----------------------------------------------------------------------------
\* What the properties of the bit fields speak of.

\* Bit i of a byte.
Bit(byte, i) == (byte \div Pow2(i)) % 2

\* Bit i lies in the field.
InField(field, i) == i >= field.offset /\ i < field.offset + field.bits

\* C17: when a write of a field (width 1..7, offset + width <= 8, value below
\* 2^width) followed by a read of the same field has completed, the value read
\* is the value written, and the register holds the byte it held before with
\* the bits of the field replaced by the bits of the value and every other bit
\* as it was.
C17_FieldRoundTrip ==
    (call.op = "writeReadBits" /\ call.result = "ok") =>
        LET field == call.options
            old == call.trace[1].v
            new == regs[field.address]
        IN  /\ call.val = field.val
            /\ new \in 0..255
            /\ \A i \in 0..7 :
                  Bit(new, i) = IF InField(field, i)
                                THEN Bit(field.val, i - field.offset)
                                ELSE Bit(old, i)

\* The 3-bit field at offset 4 of a register that held 0xFF has been written
\* with 0b101 and read back.
C17_Witness ==
    /\ call.op = "writeReadBits"
    /\ call.result = "ok"
    /\ call.options.bits = 3 /\ call.options.offset = 4 /\ call.options.val = 5
    /\ call.trace[1].v = 255
    /\ regs[FieldRegister] = 223

----------------------------------------------------------------------------
\* The field of the byte holds the value already.
HoldsValue(field, byte) ==
    \A i \in 0..7 : InField(field, i) => Bit(byte, i) = Bit(field.val, i - field.offset)

\* C18: a write of a field starts with exactly one read of the register.  Once
\* the read has returned, the write of the field goes on with exactly one write
\* of the register, of a byte other than the one read, if the field of the byte
\* read does not hold the value; if it does, it issues no write and returns
\* successfully (the caller goes on with its next operation, here the read of
\* the field).  No second write follows.
C18_WriteOnlyOnChange ==
    call.op = "writeReadBits" =>
        LET t == call.trace
            field == call.options
            old == t[1].v
        IN  /\ t[1].e = "read" /\ t[1].a = field.address
            /\ Cardinality(WritesTo(t, Latched)) <= 1
            /\ (old # -1 /\ HoldsValue(field, old)) =>
                  /\ WritesTo(t, Latched) = {}
                  /\ Len(t) = 2
                  /\ t[2].e = "read" /\ t[2].a = field.address
                  /\ call.result = "ok" => t[2].v = old
            /\ (old # -1 /\ ~HoldsValue(field, old)) =>
                  /\ Len(t) >= 2
                  /\ t[2].e = "write" /\ t[2].a = field.address /\ t[2].v # old
                  /\ call.result = "ok" => Len(t) = 3 /\ t[3].e = "read"
            /\ old = -1 => Len(t) = 1 /\ call.result \in {"pending", "BusError"}

\* The 4-bit field at offset 4 of a register that holds 0x90 has been written
\* with 9: one read, no write, and the read of the field after it.
C18_Witness ==
    /\ call.op = "writeReadBits"
    /\ call.result = "ok"
    /\ call.options.bits = 4 /\ call.options.offset = 4 /\ call.options.val = 9
    /\ call.trace = <<Entry("read", FieldRegister, 144), Entry("read", FieldRegister, 144)>>

----------------------------------------------------------------------------
\* What the properties of the frequency registers speak of.

\* The frequency the registers are to encode, in Hz.
EncodedHz(options) ==
    options.frequencyMhz * 1000000
    + (IF options.bandwidthHz < 62500 THEN options.bandwidthHz ELSE 0)

\* An init has issued the writes of the three frequency registers.
FrequencyWritten ==
    /\ call.op = "init"
    /\ \A a \in {FRF_MSB, FRF_MID, FRF_LSB} : WritesTo(call.trace, {a}) # {}

\* The 24-bit integer rebuilt from the three bytes init wrote.
FrfWritten ==
    65536 * BytesWrittenTo(call.trace, FRF_MSB)[1]
    + 256 * BytesWrittenTo(call.trace, FRF_MID)[1]
    + BytesWrittenTo(call.trace, FRF_LSB)[1]

\* |frf * fStep - hz| <= fStep, with fStep = 32000000 / 2^19 = 15625 / 256 Hz:
\* |15625 * frf - 256 * hz| <= 15625, computed on the quotient and remainder of
\* hz by 15625 so that no product exceeds 32 bits.
WithinOneStep(frf, hz) ==
    LET d == 256 * (hz \div 15625) - frf
        e == 15625 * d + 256 * (hz % 15625)
    IN  /\ d >= -257 /\ d <= 1
        /\ e >= -15625 /\ e <= 15625

\* C19, as claimed, for the positive frequencies: for every frequency and
\* bandwidth, the integer rebuilt from the three frequency bytes, times fStep,
\* is within one fStep of the encoded frequency.
C19_RoundTripForEveryFrequency ==
    (FrequencyWritten /\ call.options.frequencyMhz > 0)
        => WithinOneStep(FrfWritten, EncodedHz(call.options))

\* C19, amended: each of the three bytes is a byte, and the integer rebuilt
\* from them is, modulo 2^24, within one fStep of the encoded frequency; it is
\* within one fStep itself when the encoded frequency is at least 0 and below
\* 2^24 * fStep - fStep / 2 (1023999969 Hz at most).
C19_RoundTripBelow1024MHz ==
    FrequencyWritten =>
        LET hz == EncodedHz(call.options) IN
          /\ \A a \in {FRF_MSB, FRF_MID, FRF_LSB} :
                BytesWrittenTo(call.trace, a)[1] \in 0..255
          /\ \E n \in -1..1 : WithinOneStep(FrfWritten + n * 16777216, hz)
          /\ (hz >= 0 /\ hz <= 1024 * 1000000 - 31) => WithinOneStep(FrfWritten, hz)

\* An init at 433 MHz and 7.8 kHz has written the three frequency bytes of
\* 433007800 Hz: 0x6C, 0x40, 0x80.
C19_Witness ==
    /\ FrequencyWritten
    /\ call.options.frequencyMhz = 433
    /\ call.options.bandwidthHz = 7800
    /\ FrfWritten = 7094400

----------------------------------------------------------------------------
\* The nine-entry table of the bandwidths, in Hz.
BandwidthTable == <<7800, 10400, 15600, 20800, 31250, 41700, 62500, 125000, 250000>>

\* C20: after an init that succeeded on a chip that latches every write, the
\* 4-bit bandwidth field (bits 7..4 of MODEM_CONFIG_1) holds the number of
\* table entries below bandwidthHz, which is the smallest index (from 0) of an
\* entry >= bandwidthHz, or 9 if there is none: the position of bandwidthHz
\* when it is an entry, and 9 when it is above 250000.
C20_BandwidthIndex ==
    (call.op = "init" /\ call.result = "ok" /\ chipLatches = "all") =>
        LET bandwidthHz == call.options.bandwidthHz
            id == (regs[MODEM_CONFIG_1] \div 16) % 16
        IN  /\ id = Cardinality({k \in 1..9 : BandwidthTable[k] < bandwidthHz})
            /\ \A k \in 1..9 : bandwidthHz = BandwidthTable[k] => id = k - 1
            /\ bandwidthHz > 250000 => id = 9
            /\ id < 9 => bandwidthHz <= BandwidthTable[id + 1]
            /\ id > 0 => bandwidthHz > BandwidthTable[id]

\* An init with a bandwidth of 62500 Hz has programmed index 6.
C20_Witness ==
    /\ call.op = "init"
    /\ call.result = "ok"
    /\ call.options.bandwidthHz = 62500
    /\ call.options.frequencyMhz = 868
    /\ (regs[MODEM_CONFIG_1] \div 16) % 16 = 6

----------------------------------------------------------------------------
\* C21: for a transmit power p in 5..23, init writes the boost DAC register at
\* most once, with 0x87 when p > 20 and with 0x84 when p <= 20, and once it has
\* succeeded on a chip that latches every write the DAC register holds that
\* byte and the 4-bit power field (bits 3..0 of PA_CONFIG) holds (p-3)-5 when
\* p > 20 and p-5 when p <= 20 (15 for 23, 13 for 18), with the boost pin
\* selected (bit 7); for p outside 5..23 init ends with a range error and
\* writes neither the DAC register nor PA_CONFIG.
C21_TxPower ==
    call.op = "init" =>
        LET p == call.options.txPowerDb
            t == call.trace
            dac == BytesWrittenTo(t, PA_DAC)
            boost == IF p > 20 THEN \h87 ELSE \h84
            field == IF p > 20 THEN (p - 3) - 5 ELSE p - 5
        IN  /\ p \in 5..23 =>
                /\ Len(dac) <= 1
                /\ \A k \in 1..Len(dac) : dac[k] = boost
                /\ \A k \in WritesTo(t, {PA_CONFIG}) :
                        \E j \in WritesTo(t, {PA_DAC}) : j < k
                /\ (call.result = "ok" /\ chipLatches = "all") =>
                        /\ Len(dac) = 1
                        /\ regs[PA_DAC] = boost
                        /\ regs[PA_CONFIG] % 16 = field
                        /\ regs[PA_CONFIG] \div 128 = 1
                        /\ p = 23 => (regs[PA_DAC] = 135 /\ regs[PA_CONFIG] % 16 = 15)
                        /\ p = 18 => (regs[PA_DAC] = 132 /\ regs[PA_CONFIG] % 16 = 13)
            /\ p \notin 5..23 =>
                /\ WritesTo(t, {PA_DAC, PA_CONFIG}) = {}
                /\ call.result # "ok"
                /\ (InitEnded /\ chipLatches = "all") => call.result = "RangeError"

\* An init with a transmit power of 23 dB has succeeded: the DAC register holds
\* 0x87 and the power field 15.
C21_Witness ==
    /\ call.op = "init"
    /\ call.result = "ok"
    /\ call.options.txPowerDb = 23
    /\ BytesWrittenTo(call.trace, PA_DAC) = <<\h87>>
    /\ regs[PA_DAC] = \h87
    /\ regs[PA_CONFIG] % 16 = 15

\* An init with a transmit power of 24 dB has ended with a range error, after
\* the parameters before the power were programmed.
C21_WitnessRejected ==
    /\ call.op = "init"
    /\ call.result = "RangeError"
    /\ call.options.txPowerDb = 24
    /\ WritesTo(call.trace, {FRF_LSB}) # {}
    /\ WritesTo(call.trace, {PA_DAC, PA_CONFIG}) = {}

====
